---- MODULE Spec2Model ----
(***************************************************************************)
(* Model of the website change notifier: the per-site state kept in        *)
(* WebsiteData, the cooldown methods, check_site with its confirmation     *)
(* loop and keyword latch, and the cycle loop of main.                     *)
(*                                                                         *)
(* Scores are f64 values in [0,1] in the source; here they are integers    *)
(* in hundredths (0.99 is 99, 1.0 is 100).  Page text is a sequence of     *)
(* one-character strings.  An Option is a sequence of length 0 or 1.       *)
(***************************************************************************)
EXTENDS Integers, Sequences, FiniteSets, TLC

VARIABLES
    sites,            \* main: the Vec<WebsiteData>
    pc,               \* where main / check_site stands
    idx,              \* index of the site the for loop of main is at
    cycle,            \* number of the running cycle of main's loop
    page,             \* what the shared browser page shows: Blank or a site's url
    locals,           \* check_site's local variables while a check is running
    pre,              \* history: the site as it was when check_site was called
    res,              \* history: what the check_site call that just returned did
    overflow_checks,  \* the build: TRUE panics on integer overflow, FALSE wraps
    horizon,          \* the cycle the exploration of main's endless loop stops at
    builder,          \* website_data.rs: the WebsiteDataBuilder about to be built
    built,            \* website_data.rs: what build() did with it
    sent_run,         \* history, per site: how many of its latest executed checks in a
                      \* row sent a notification
    trigger,          \* history, per site: the cycle of the backoff whose countdown is
                      \* running and the cooldown it stored
    alerts            \* history, per site: how many notifications of priority 1 were
                      \* sent for it

vars == <<sites, pc, idx, cycle, page, locals, pre, res, overflow_checks, horizon,
          builder, built, sent_run, trigger, alerts>>

----------------------------------------------------------------------------
(* Bounds of the exploration *)

MaxCycles == 10
MaxBackoffs == 10
BackoffCycles == 5
TwoSiteCycles == 3
MaxLevel == 11

(* Program constants *)

DefaultThreshold == 99
DefaultMaxRetries == 3
BanAt == 4
CooldownBase == 3
MinRunsToNotify == 3
U16Bits == 16

(* What the collaborators can answer *)

Blank == 0
Shapes == {"wide", "tall"}
Scores == {98, 99, 100}
ScoreOne == 100
ScoreZero == 0

MERCH_KEYWORDS ==
    << <<"m","e","r","c","h">>,
       <<"s","t","o","r","e">>,
       <<"s","h","o","p">>,
       <<"b","u","y">>,
       <<"c","l","o","t","h","i","n","g">>,
       <<"c","l","o","t","h","e","s">> >>

PageTexts ==
    { <<>>,
      <<"S","h","o","p">>,
      <<"<","p",">","b","u","y","<">>,
      <<"s","h","o","e","s">> }

----------------------------------------------------------------------------
(* Pure helpers *)

RECURSIVE Pow(_, _)
Pow(b, e) == IF e = 0 THEN 1 ELSE b * Pow(b, e - 1)

U16Max == Pow(2, U16Bits) - 1

RECURSIVE Sum(_)
Sum(s) == IF s = <<>> THEN 0 ELSE Head(s) + Sum(Tail(s))

Some(x) == <<x>>
None == <<>>

UpperCase ==
    [c \in {"S", "H", "O", "P", "B", "U", "Y"} |->
        CASE c = "S" -> "s" [] c = "H" -> "h" [] c = "O" -> "o" [] c = "P" -> "p"
          [] c = "B" -> "b" [] c = "U" -> "u" [] c = "Y" -> "y"]

ToLowercase(text) ==
    [i \in DOMAIN text |-> IF text[i] \in DOMAIN UpperCase THEN UpperCase[text[i]] ELSE text[i]]

Contains(text, k) ==
    \E i \in 0..(Len(text) - Len(k)) : SubSeq(text, i + 1, i + Len(k)) = k

AnyKeyword(text) ==
    \E j \in DOMAIN MERCH_KEYWORDS : Contains(text, MERCH_KEYWORDS[j])

----------------------------------------------------------------------------
(* WebsiteData *)

Wd(url) ==
    [ url                    |-> url,
      threshold              |-> DefaultThreshold,
      max_retries            |-> DefaultMaxRetries,
      last_image             |-> None,
      merch_already_detected |-> FALSE,
      total_runs             |-> 0,
      changes_stacking       |-> 0,
      current_cooldown       |-> 0,
      total_cooldowns        |-> 0 ]

ShouldRequest_Stuck(s) ==
    IF s.current_cooldown = 0
    THEN [ret |-> TRUE, site |-> s]
    ELSE [ret |-> FALSE, site |-> s]

ShouldRequest_NoExpiry(s) ==
    IF s.current_cooldown = 0
    THEN [ret |-> TRUE, site |-> s]
    ELSE [ret  |-> FALSE,
          site |-> [s EXCEPT !.current_cooldown = s.current_cooldown - 1]]

ShouldRequest(s) ==
    IF s.current_cooldown = 0
    THEN [ret |-> TRUE, site |-> s]
    ELSE [ret  |-> s.current_cooldown - 1 = 0,
          site |-> [s EXCEPT !.current_cooldown = s.current_cooldown - 1]]

\* (3_u16).pow(n): the power overflows u16 when it exceeds U16Max
PowOverflows(n) == Pow(CooldownBase, n) > U16Max
WrappingPow(n) == Pow(CooldownBase, n) % (U16Max + 1)

ShouldNotify_KeepsStreak(s, checked) ==
    LET stacked == s.changes_stacking + 1
        banned  == stacked >= BanAt
        total   == s.total_cooldowns + 1
    IN  IF ~banned
        THEN [ret |-> TRUE, panicked |-> FALSE,
              site |-> [s EXCEPT !.changes_stacking = stacked]]
        ELSE IF PowOverflows(total) /\ checked
        THEN [ret |-> FALSE, panicked |-> TRUE,
              site |-> [s EXCEPT !.changes_stacking = stacked,
                                 !.total_cooldowns = total]]
        ELSE [ret |-> FALSE, panicked |-> FALSE,
              site |-> [s EXCEPT !.total_cooldowns = total,
                                 !.current_cooldown = WrappingPow(total),
                                 !.changes_stacking = stacked]]

\* The outcome of should_notify on site s: the site afterwards, the value
\* returned, and whether the call panicked (overflow in a checked build, in
\* which case the fields written before the power keep their new values).
ShouldNotify(s, checked) ==
    LET stacked == s.changes_stacking + 1
        banned  == stacked >= BanAt
        total   == s.total_cooldowns + 1
    IN  IF ~banned
        THEN [ret |-> TRUE, panicked |-> FALSE,
              site |-> [s EXCEPT !.changes_stacking = stacked]]
        ELSE IF PowOverflows(total) /\ checked
        THEN [ret |-> FALSE, panicked |-> TRUE,
              site |-> [s EXCEPT !.changes_stacking = stacked,
                                 !.total_cooldowns = total]]
        ELSE [ret |-> FALSE, panicked |-> FALSE,
              site |-> [s EXCEPT !.total_cooldowns = total,
                                 !.current_cooldown = WrappingPow(total),
                                 !.changes_stacking = 0]]

NothingChanged_NoFloor(s) ==
    [s EXCEPT !.total_cooldowns = s.total_cooldowns - 1,
              !.changes_stacking = 0]

NothingChanged_KeepsStreak(s) ==
    [s EXCEPT !.total_cooldowns = IF s.total_cooldowns # 0
                                  THEN s.total_cooldowns - 1
                                  ELSE s.total_cooldowns]

NothingChanged(s) ==
    [s EXCEPT !.total_cooldowns = IF s.total_cooldowns # 0
                                  THEN s.total_cooldowns - 1
                                  ELSE s.total_cooldowns,
              !.changes_stacking = 0]

----------------------------------------------------------------------------
(* check_site's pieces *)

\* image_compare::rgb_hybrid_compare: an error when the dimensions differ,
\* otherwise the score the comparator gives (raw)
RgbHybridCompare(new, last, raw) ==
    IF new.shape # last.shape THEN None ELSE Some(raw)

\* the match in create_screenshot
Comparison(new, last_image, raw) ==
    IF last_image # None
    THEN LET r == RgbHybridCompare(new, last_image[1], raw)
         IN  IF r # None THEN r[1] ELSE ScoreZero
    ELSE ScoreOne

LooksUnchanged_AtThreshold(score, threshold) == score >= threshold

\* the break condition of the confirmation loop
LooksUnchanged(score, threshold) == score > threshold

AllChanged_ByAverage(scores, threshold) ==
    Sum([i \in DOMAIN scores |-> scores[i][1]]) < threshold * Len(scores)

AllChanged(scores, threshold) ==
    \A i \in DOMAIN scores : scores[i][1] < threshold

MostSimilar_Latest(scores) == scores[Len(scores)]

\* Iterator::max_by: the last of the maximal elements
MostSimilar(scores) ==
    LET best == CHOOSE i \in DOMAIN scores :
                    /\ \A j \in DOMAIN scores : scores[j][1] <= scores[i][1]
                    /\ \A j \in DOMAIN scores : scores[j][1] = scores[i][1] => j <= i
    IN  scores[best]

MerchLatch_Overwrites(already, found) ==
    [ newly |-> IF already THEN FALSE ELSE found, already |-> found ]

\* lines 240-247: the keyword latch
MerchLatch(already, found) ==
    [ newly   |-> IF already THEN FALSE ELSE found,
      already |-> IF already THEN already ELSE found ]

IsQuiet(all_changed, merch_newly_detected) ==
    ~all_changed /\ ~merch_newly_detected

Priority(merch_newly_detected) == IF merch_newly_detected THEN 1 ELSE 0

MayNotify_FromThird(s) == s.total_runs >= MinRunsToNotify

MayNotify(s) == s.total_runs > MinRunsToNotify

NoLocals ==
    [ first_run |-> FALSE, last_image |-> None,
      screenshot_scores |-> <<>>, all_changed |-> FALSE ]

NoRes ==
    [ kind |-> "none", found |-> FALSE, merch_newly_detected |-> FALSE,
      all_changed |-> FALSE, first_run |-> FALSE,
      should_notify |-> "not called", notified |-> None ]

----------------------------------------------------------------------------
(* The state after construction: main's vec of sites, the page on about:blank *)

Site == sites[idx]

Init ==
    /\ sites = << Wd(1) >>
    /\ pc = "for_site"
    /\ idx = 1
    /\ cycle = 1
    /\ page = Blank
    /\ locals = NoLocals
    /\ pre = None
    /\ res = NoRes
    /\ overflow_checks \in BOOLEAN
    /\ horizon = MaxCycles
    /\ builder = None
    /\ built = None
    /\ sent_run = << 0 >>
    /\ trigger = << None >>
    /\ alerts = << 0 >>

----------------------------------------------------------------------------
(* check_site, lines 202-206: the site is on cooldown and the check returns *)
CheckSiteSkip ==
    /\ pc = "for_site"
    /\ LET r == ShouldRequest(Site)
       IN  /\ ~r.ret
           /\ sites' = [sites EXCEPT ![idx] = r.site]
    /\ pc' = "returned"
    /\ pre' = Some(Site)
    /\ res' = [NoRes EXCEPT !.kind = "skipped"]
    /\ UNCHANGED <<idx, cycle, page, locals, overflow_checks, horizon, builder, built, sent_run, trigger, alerts>>

(* check_site, lines 202-213: the check runs; the previous image is taken out *)
CheckSiteBegin ==
    /\ pc = "for_site"
    /\ LET r == ShouldRequest(Site)
       IN  /\ r.ret
           /\ sites' = [sites EXCEPT ![idx] =
                            [r.site EXCEPT !.total_runs = r.site.total_runs + 1,
                                           !.last_image = None]]
           /\ locals' = [ first_run         |-> r.site.last_image = None,
                          last_image        |-> r.site.last_image,
                          screenshot_scores |-> <<>>,
                          all_changed       |-> FALSE ]
    /\ pc' = "capture"
    /\ pre' = Some(Site)
    /\ res' = NoRes
    /\ UNCHANGED <<idx, cycle, page, overflow_checks, horizon, builder, built, sent_run, trigger, alerts>>

(* One iteration of the confirmation loop whose create_screenshot succeeds   *)
(* (lines 214-223, 276-317) and, when the loop ends with it, lines 225-235.  *)
CreateScreenshotOk ==
    /\ pc = "capture"
    /\ \E shape \in Shapes, raw \in Scores :
         LET image  == [ run   |-> Site.total_runs,
                         att   |-> Len(locals.screenshot_scores) + 1,
                         shape |-> shape ]
             result == << Comparison(image, locals.last_image, raw), image >>
             scores == Append(locals.screenshot_scores, result)
             ends   == \/ LooksUnchanged(result[1], Site.threshold)
                       \/ Len(scores) >= Site.max_retries
         IN  IF ends
             THEN /\ locals' = [locals EXCEPT
                                  !.screenshot_scores = scores,
                                  !.all_changed = AllChanged(scores, Site.threshold)]
                  /\ sites' = [sites EXCEPT ![idx].last_image =
                                  Some(MostSimilar(scores)[2])]
                  /\ pc' = "text"
             ELSE /\ locals' = [locals EXCEPT !.screenshot_scores = scores]
                  /\ sites' = sites
                  /\ pc' = "capture"
    /\ page' = Site.url
    /\ UNCHANGED <<idx, cycle, pre, res, overflow_checks, horizon, builder, built, sent_run, trigger, alerts>>

(* create_screenshot fails (navigation, element lookup, capture or decoding) *)
(* and the ? of line 215 returns the error from check_site.                  *)
CreateScreenshotErr ==
    /\ pc = "capture"
    /\ \E navigated \in BOOLEAN :
         page' = IF navigated THEN Site.url ELSE page
    /\ pc' = "returned"
    /\ res' = [NoRes EXCEPT !.kind = "err", !.first_run = locals.first_run]
    /\ locals' = NoLocals
    /\ UNCHANGED <<sites, idx, cycle, pre, overflow_checks, horizon, builder, built, sent_run, trigger, alerts>>

(* Lines 238-273: the page text is read, then the keyword latch, the quiet   *)
(* cycle, the first-run return and the notification.                         *)
EvaluateTextOk ==
    /\ pc = "text"
    /\ \E raw_text \in PageTexts, delivered \in BOOLEAN :
         LET text   == ToLowercase(raw_text)
             found  == AnyKeyword(text)
             latch  == MerchLatch(Site.merch_already_detected, found)
             s1     == [Site EXCEPT !.merch_already_detected = latch.already]
             base   == [NoRes EXCEPT !.kind = "ok",
                                     !.found = found,
                                     !.merch_newly_detected = latch.newly,
                                     !.all_changed = locals.all_changed,
                                     !.first_run = locals.first_run]
         IN  IF IsQuiet(locals.all_changed, latch.newly)
             THEN /\ sites' = [sites EXCEPT ![idx] = NothingChanged(s1)]
                  /\ res' = base
                  /\ pc' = "returned"
                  /\ trigger' = trigger
                  /\ alerts' = alerts
             ELSE IF locals.first_run \/ ~MayNotify(s1)
             THEN /\ sites' = [sites EXCEPT ![idx] = s1]
                  /\ res' = base
                  /\ pc' = "returned"
                  /\ trigger' = trigger
                  /\ alerts' = alerts
             ELSE LET n == ShouldNotify(s1, overflow_checks)
                  IN  /\ sites' = [sites EXCEPT ![idx] = n.site]
                      /\ res' = [base EXCEPT
                                   !.kind = IF n.panicked THEN "panic" ELSE "ok",
                                   !.should_notify =
                                       IF n.panicked THEN "panicked"
                                       ELSE IF n.ret THEN "true" ELSE "false",
                                   !.notified =
                                       IF n.ret
                                       THEN Some([ priority  |-> Priority(latch.newly),
                                                   delivered |-> delivered ])
                                       ELSE None]
                      /\ pc' = IF n.panicked THEN "dead" ELSE "returned"
                      /\ trigger' = IF ~n.ret /\ ~n.panicked
                                    THEN [trigger EXCEPT ![idx] =
                                            Some([ cycle |-> cycle,
                                                   n     |-> n.site.current_cooldown ])]
                                    ELSE trigger
                      /\ alerts' = IF n.ret /\ Priority(latch.newly) = 1
                                   THEN [alerts EXCEPT ![idx] = @ + 1]
                                   ELSE alerts
    /\ locals' = NoLocals
    /\ UNCHANGED <<idx, cycle, page, pre, overflow_checks, horizon, builder, built, sent_run>>

(* page.evaluate of line 238 fails and its ? returns the error *)
EvaluateTextErr ==
    /\ pc = "text"
    /\ pc' = "returned"
    /\ res' = [NoRes EXCEPT !.kind = "err",
                            !.all_changed = locals.all_changed,
                            !.first_run = locals.first_run]
    /\ locals' = NoLocals
    /\ UNCHANGED <<sites, idx, cycle, page, pre, overflow_checks, horizon, builder, built, sent_run, trigger, alerts>>

(* main, lines 188-194: the error, if any, is printed; the for loop goes on *)
NextSite ==
    /\ pc = "returned"
    /\ IF idx < Len(sites)
       THEN /\ idx' = idx + 1
            /\ pc' = "for_site"
       ELSE /\ idx' = idx
            /\ pc' = "cycle_end"
    /\ pre' = None
    /\ res' = NoRes
    /\ sent_run' = [sent_run EXCEPT ![idx] =
                        IF res.kind = "skipped" THEN @
                        ELSE IF res.notified # None THEN @ + 1 ELSE 0]
    /\ trigger' = [trigger EXCEPT ![idx] =
                        IF res.kind # "skipped" /\ @ # None /\ @[1].cycle < cycle
                        THEN None ELSE @]
    /\ UNCHANGED <<sites, cycle, page, locals, overflow_checks, horizon, builder, built, alerts>>

(* main, lines 196-199: back to about:blank, sleep, next cycle *)
CycleEndOk ==
    /\ pc = "cycle_end"
    /\ cycle < horizon
    /\ page' = Blank
    /\ cycle' = cycle + 1
    /\ idx' = 1
    /\ pc' = "for_site"
    /\ UNCHANGED <<sites, locals, pre, res, overflow_checks, horizon, builder, built, sent_run, trigger, alerts>>

(* main, line 196: the goto fails and its ? returns the error from main *)
CycleEndErr ==
    /\ pc = "cycle_end"
    /\ pc' = "dead"
    /\ UNCHANGED <<sites, idx, cycle, page, locals, pre, res, overflow_checks, horizon, builder, built, sent_run, trigger, alerts>>

Next ==
    \/ CheckSiteSkip
    \/ CheckSiteBegin
    \/ CreateScreenshotOk
    \/ CreateScreenshotErr
    \/ EvaluateTextOk
    \/ EvaluateTextErr
    \/ NextSite
    \/ CycleEndOk
    \/ CycleEndErr

Spec == Init /\ [][Next]_vars

----------------------------------------------------------------------------
(* A site in the last cycle of its k-th cooldown, for the two deepest levels *)
(* explored: k backoffs were imposed by BanAt reportable checks each, after  *)
(* the runs that cannot notify, and the countdown of the k-th has one cycle  *)
(* left.  A build that checks overflow cannot have passed a backoff whose    *)
(* power overflowed.                                                         *)

InBackoff(k) ==
    LET runs == MinRunsToNotify + BanAt * k
    IN  [Wd(1) EXCEPT !.total_cooldowns = k,
                      !.current_cooldown = 1,
                      !.total_runs = runs,
                      !.last_image = Some([run |-> runs, att |-> 1, shape |-> "wide"])]

InitBackoff ==
    /\ \E k \in (MaxBackoffs - 1)..MaxBackoffs : sites = << InBackoff(k) >>
    /\ pc = "for_site"
    /\ idx = 1
    /\ cycle = 1
    /\ page = Blank
    /\ locals = NoLocals
    /\ pre = None
    /\ res = NoRes
    /\ overflow_checks \in {b \in BOOLEAN : b => ~PowOverflows(sites[1].total_cooldowns)}
    /\ horizon = BackoffCycles
    /\ builder = None
    /\ built = None
    /\ sent_run = << 0 >>
    /\ trigger = << Some([ cycle |-> cycle + sites[1].current_cooldown - 1
                                        - WrappingPow(sites[1].total_cooldowns),
                            n     |-> WrappingPow(sites[1].total_cooldowns) ]) >>
    /\ alerts = << 0 >>

SpecBackoff == InitBackoff /\ [][Next]_vars

----------------------------------------------------------------------------
(* Two sites at the start of the cycle after the one in which the first got  *)
(* its first backoff (its checks were reportable from the second on) while   *)
(* every check of the second was quiet.                                      *)

JustBanned(url) ==
    [InBackoff(1) EXCEPT !.url = url, !.current_cooldown = WrappingPow(1)]

AlwaysQuiet(url) ==
    LET runs == InBackoff(1).total_runs
    IN  [Wd(url) EXCEPT !.total_runs = runs,
                        !.last_image = Some([run |-> runs, att |-> 1, shape |-> "wide"])]

InitTwoSites ==
    /\ sites = << JustBanned(1), AlwaysQuiet(2) >>
    /\ pc = "for_site"
    /\ idx = 1
    /\ cycle = InBackoff(1).total_runs + 1
    /\ page = Blank
    /\ locals = NoLocals
    /\ pre = None
    /\ res = NoRes
    /\ overflow_checks \in BOOLEAN
    /\ horizon = cycle + TwoSiteCycles - 1
    /\ builder = None
    /\ built = None
    /\ sent_run = << 0, 0 >>
    /\ trigger = << Some([cycle |-> cycle - 1, n |-> WrappingPow(1)]), None >>
    /\ alerts = << 0, 0 >>

SpecTwoSites == InitTwoSites /\ [][Next]_vars

----------------------------------------------------------------------------
(* One site at the start of the cycle after the one in which its k-th        *)
(* backoff was imposed, followed for as many cycles as the cooldown stored.  *)
(* A build that checks overflow cannot have stored a power that overflowed.  *)
(* The steps of the loop that do not fail are taken whenever they stay       *)
(* possible; a failure is never forced.                                      *)

BannedAt(k) ==
    [InBackoff(k) EXCEPT !.current_cooldown = WrappingPow(k)]

InitCountdown ==
    /\ \E k \in 1..MaxLevel : sites = << BannedAt(k) >>
    /\ pc = "for_site"
    /\ idx = 1
    /\ cycle = 1
    /\ page = Blank
    /\ locals = NoLocals
    /\ pre = None
    /\ res = NoRes
    /\ overflow_checks \in {b \in BOOLEAN : b => ~PowOverflows(sites[1].total_cooldowns)}
    /\ horizon = sites[1].current_cooldown
    /\ builder = None
    /\ built = None
    /\ sent_run = << 0 >>
    /\ trigger = << Some([cycle |-> cycle - 1, n |-> sites[1].current_cooldown]) >>
    /\ alerts = << 0 >>

LoopRuns ==
    /\ WF_vars(CheckSiteSkip)
    /\ WF_vars(CheckSiteBegin)
    /\ WF_vars(CreateScreenshotOk)
    /\ WF_vars(EvaluateTextOk)
    /\ WF_vars(NextSite)
    /\ WF_vars(CycleEndOk)

SpecCountdown == InitCountdown /\ [][Next]_vars /\ LoopRuns

----------------------------------------------------------------------------
(* website_data.rs: WebsiteDataBuilder::build.  A builder comes from wd(url)  *)
(* and the setters, or from deserialisation; every field is an input.        *)

ThresholdOne == 100
ThresholdZero == 0

Urls == {"", "https://a"}
ThresholdInputs == {-1, 0, 1, 99, 100, 101}
ConfirmInputs == 0..2
WaitInputs == {0, 250}
ElementInputs == {None, Some(<<"footer">>), Some(<<"img", "video">>)}
ScriptInputs == {None, Some(<<"a()">>)}
InnerScriptInputs == {None, Some(<< <<"()=>{", "b()", "}">> >>)}

\* format!("()=>{{{}}}", script) pushed on inner_scripts (get_or_insert_with)
InnerAddScript(inner, script) ==
    Some(Append(IF inner = None THEN <<>> ELSE inner[1], <<"()=>{", script, "}">>))

RECURSIVE Join(_)
Join(elements) ==
    IF Len(elements) <= 1 THEN elements
    ELSE <<Head(elements), ", ">> \o Join(Tail(elements))

InnerRemoveElementsScript(elements) ==
    <<"document.querySelectorAll('">> \o Join(elements)
        \o <<"')?.forEach(a => a?.remove());">>

RECURSIVE AddScripts(_, _)
AddScripts(inner, scripts) ==
    IF scripts = <<>> THEN inner
    ELSE AddScripts(InnerAddScript(inner, Head(scripts)), Tail(scripts))

\* line 139: self.threshold < 0.0 || self.threshold > 1.0
ThresholdRejected(threshold) ==
    threshold < ThresholdZero \/ threshold > ThresholdOne

Build(b) ==
    IF b.url = ""
    THEN [status |-> "panic", message |-> "require url to be non blank", input |-> b]
    ELSE IF b.max_confirms = 0
    THEN [status |-> "panic", message |-> "max confirms has to be >0", input |-> b]
    ELSE IF ThresholdRejected(b.threshold)
    THEN [status |-> "panic", message |-> "threshold has to be > 0 & < 1", input |-> b]
    ELSE LET removed == IF b.remove_elements # None
                        THEN InnerAddScript(b.inner_scripts,
                                 InnerRemoveElementsScript(b.remove_elements[1]))
                        ELSE b.inner_scripts
             scripts == IF b.scripts # None
                        THEN AddScripts(removed, b.scripts[1])
                        ELSE removed
         IN  [ status  |-> "ok",
               message |-> "",
               input   |-> b,
               data    |-> [ url                    |-> b.url,
                             scripts                |-> scripts,
                             screenshot_selector    |-> b.screenshot_selector,
                             wait                   |-> b.wait,
                             threshold              |-> b.threshold,
                             max_confirms           |-> b.max_confirms,
                             last_image             |-> None,
                             merch_already_detected |-> FALSE,
                             changes_stacking       |-> 0,
                             current_cooldown       |-> 0,
                             total_cooldowns        |-> 0,
                             total_runs             |-> 0 ] ]

InitBuild ==
    /\ \E u \in Urls, th \in ThresholdInputs, mc \in ConfirmInputs, w \in WaitInputs,
          re \in ElementInputs, sc \in ScriptInputs, inner \in InnerScriptInputs :
         builder = Some([ url                 |-> u,
                          inner_scripts       |-> inner,
                          screenshot_selector |-> None,
                          wait                |-> w,
                          threshold           |-> th,
                          max_confirms        |-> mc,
                          remove_elements     |-> re,
                          scripts             |-> sc ])
    /\ built = None
    /\ sites = <<>>
    /\ pc = "build"
    /\ idx = 1
    /\ cycle = 1
    /\ page = Blank
    /\ locals = NoLocals
    /\ pre = None
    /\ res = NoRes
    /\ overflow_checks \in BOOLEAN
    /\ horizon = MaxCycles
    /\ sent_run = <<>>
    /\ trigger = <<>>
    /\ alerts = <<>>

(* build(self): the builder is consumed; a panic ends the process *)
BuildCall ==
    /\ pc = "build"
    /\ builder # None
    /\ built' = Some(Build(builder[1]))
    /\ builder' = None
    /\ pc' = IF Build(builder[1]).status = "panic" THEN "dead" ELSE "built"
    /\ UNCHANGED <<sites, idx, cycle, page, locals, pre, res, overflow_checks, horizon,
                   sent_run, trigger, alerts>>

NextBuild == BuildCall

SpecBuild == InitBuild /\ [][NextBuild]_vars

----------------------------------------------------------------------------
(* Properties *)

Before == pre[1]
Taken == locals.screenshot_scores
ScoreOf(i) == Taken[i][1]
ImageOf(i) == Taken[i][2]

\* C1: should_request returns true and changes nothing when current_cooldown
\* is 0; otherwise it decrements current_cooldown and returns true exactly
\* when the decrement reached 0, false while it is still above 0.
C1_ShouldRequest ==
    pre # None =>
        LET n == Before.current_cooldown
        IN  /\ n = 0 => /\ res.kind # "skipped"
                        /\ pc = "capture" => Site.current_cooldown = 0
            /\ n > 0 => /\ res.kind = "skipped" <=> n - 1 > 0
                        /\ (res.kind = "skipped" \/ pc = "capture")
                              => Site.current_cooldown = n - 1
            /\ res.kind = "skipped" => Site = [Before EXCEPT !.current_cooldown = n - 1]
            /\ pc = "capture" => /\ Site.changes_stacking = Before.changes_stacking
                                 /\ Site.total_cooldowns = Before.total_cooldowns

C1_Witness ==
    /\ pc = "capture"
    /\ pre # None
    /\ Before.current_cooldown = 1
    /\ Site.current_cooldown = 0

\* C2: each call of should_notify with the streak below 3 before it returns
\* true (the 1st, 2nd and 3rd in a row); the call with the streak at 3 (the
\* 4th) returns false, adds exactly 1 to total_cooldowns, sets
\* current_cooldown to 3^total_cooldowns and resets the streak to 0.
C2_FourthIsSuppressed ==
    res.should_notify # "not called" =>
        IF Before.changes_stacking < BanAt - 1
        THEN /\ res.should_notify = "true"
             /\ Site.changes_stacking = Before.changes_stacking + 1
             /\ Site.total_cooldowns = Before.total_cooldowns
             /\ Site.current_cooldown = 0
        ELSE /\ res.should_notify = "false"
             /\ Site.total_cooldowns = Before.total_cooldowns + 1
             /\ Site.current_cooldown = Pow(CooldownBase, Site.total_cooldowns)
             /\ Site.changes_stacking = 0

\* C3: an executed check that is quiet (no confirmed change, no newly
\* detected keyword) decrements total_cooldowns if it is nonzero, resets the
\* streak to 0 and sends no notification.
C3_QuietCycle ==
    (res.kind = "ok" /\ ~res.all_changed /\ ~res.merch_newly_detected) =>
        /\ Site.total_cooldowns = IF Before.total_cooldowns # 0
                                  THEN Before.total_cooldowns - 1 ELSE 0
        /\ Site.changes_stacking = 0
        /\ res.notified = None

C3_Witness ==
    /\ res.kind = "ok" /\ ~res.all_changed /\ ~res.merch_newly_detected
    /\ Before.total_cooldowns = 1
    /\ Site.total_cooldowns = 0

\* C4: a check that runs with no prior image sends no notification and, when
\* it completes, last_image is present and merch_already_detected equals
\* whether a keyword was found in the page text.
C4_FirstRun ==
    (res.kind = "ok" /\ Before.last_image = None) =>
        /\ res.notified = None
        /\ Site.last_image # None
        /\ Site.merch_already_detected = res.found

\* C5: after a check that a renderer failure abandoned, last_image,
\* merch_already_detected, changes_stacking and total_cooldowns are what
\* they were before the check.
C5_FailureLeavesState ==
    res.kind = "err" =>
        /\ Site.last_image = Before.last_image
        /\ Site.merch_already_detected = Before.merch_already_detected
        /\ Site.changes_stacking = Before.changes_stacking
        /\ Site.total_cooldowns = Before.total_cooldowns

\* C6: merch_already_detected is a latch (once true, true in every later
\* state), and a check reports the keyword as newly detected exactly when
\* the text holds a keyword and the latch was false before the check.
C6_KeywordLatch ==
    /\ [][\A i \in DOMAIN sites :
            sites[i].merch_already_detected => sites'[i].merch_already_detected]_vars
    /\ [](res.kind = "ok" =>
            (res.merch_newly_detected <=>
                (res.found /\ ~Before.merch_already_detected)))

C6_Witness ==
    /\ res.kind = "ok"
    /\ res.found
    /\ Before.merch_already_detected
    /\ ~res.merch_newly_detected
    /\ Site.merch_already_detected

\* C7: a notification is sent only in a check that had a prior image, with
\* total_runs (this check counted) above 3 and should_notify returning true.
C7_NotifyOnlyIf ==
    res.notified # None =>
        /\ Before.last_image # None
        /\ Before.total_runs >= 1
        /\ Site.total_runs > 3
        /\ res.should_notify = "true"

C7_Witness ==
    /\ res.notified # None
    /\ Site.total_runs = 4

\* C8: all_changed is true exactly when every attempt of the check scored
\* strictly below the threshold, an attempt whose comparison failed on a
\* shape mismatch counting as 0; the average plays no part.
C8_AllChanged ==
    pc = "text" =>
        /\ locals.all_changed <=> \A i \in DOMAIN Taken : ScoreOf(i) < Site.threshold
        /\ \A i \in DOMAIN Taken :
              (locals.last_image # None /\ ImageOf(i).shape # locals.last_image[1].shape)
                  => ScoreOf(i) = 0

C8_Witness ==
    /\ pc = "text"
    /\ ~locals.all_changed
    /\ Sum([i \in DOMAIN Taken |-> ScoreOf(i)]) < Site.threshold * Len(Taken)
    /\ \E i \in DOMAIN Taken :
          /\ locals.last_image # None
          /\ ImageOf(i).shape # locals.last_image[1].shape
          /\ ScoreOf(i) = 0

\* C9: the confirmation loop takes between 1 and max_retries captures, takes
\* none after a capture that scored strictly above the threshold, and takes
\* exactly max_retries when none scored above it.
C9_ConfirmationLoop ==
    /\ pc = "capture" =>
          /\ Len(Taken) < Site.max_retries
          /\ \A i \in DOMAIN Taken : ScoreOf(i) <= Site.threshold
    /\ pc = "text" =>
          /\ Len(Taken) >= 1
          /\ Len(Taken) <= Site.max_retries
          /\ \A i \in 1..(Len(Taken) - 1) : ScoreOf(i) <= Site.threshold
          /\ ScoreOf(Len(Taken)) <= Site.threshold => Len(Taken) = Site.max_retries

C9_Witness ==
    /\ pc = "text"
    /\ Len(Taken) = 2
    /\ ScoreOf(1) < Site.threshold
    /\ ScoreOf(2) > Site.threshold

\* C10: a check that gets through its loop stores, once, a capture of this
\* check whose score is the greatest of the attempts, never the previous
\* image; last_image is written nowhere else but where the previous image
\* is taken out.
C10_BestCapture ==
    /\ [](pc = "text" =>
            /\ Site.last_image # None
            /\ Site.last_image # locals.last_image
            /\ \E i \in DOMAIN Taken :
                  /\ ImageOf(i) = Site.last_image[1]
                  /\ \A j \in DOMAIN Taken : ScoreOf(j) <= ScoreOf(i))
    /\ [](res.kind = "ok" =>
            /\ Site.last_image # None
            /\ Site.last_image # Before.last_image
            /\ Site.last_image[1].run = Site.total_runs)
    /\ [][\A i \in DOMAIN sites :
            sites'[i].last_image # sites[i].last_image =>
                \/ pc = "for_site" /\ pc' = "capture" /\ sites'[i].last_image = None
                \/ pc = "capture" /\ pc' = "text" /\ i = idx]_vars

C10_Witness ==
    /\ pc = "text"
    /\ Len(Taken) = 3
    /\ ScoreOf(1) > ScoreOf(2)
    /\ ScoreOf(1) > ScoreOf(3)
    /\ Site.last_image = Some(ImageOf(1))


\* C11: build fails exactly when the url is empty, max_confirms is 0 or the
\* threshold is outside the open interval (0,1), the boundary values 0.0 and
\* 1.0 being rejected; every other builder gives a WebsiteData.
C11_BuildRejects ==
    built # None =>
        LET b == built[1].input
        IN  built[1].status = "panic" <=>
                \/ b.url = ""
                \/ b.max_confirms = 0
                \/ ~(b.threshold > ThresholdZero /\ b.threshold < ThresholdOne)


\* C12: once started, the loop of main never ends: no renderer failure and no
\* failed notification delivery stops it.
C12_LoopNeverEnds ==
    pc # "dead"


\* C13: the page is back on about:blank before the first page load of every
\* check, between two sites of a cycle as well as after the end of a cycle.
C13_BlankBetweenSites ==
    (pc = "capture" /\ Taken = <<>>) => page = Blank


\* C14: the power that gives the cooldown never leaves its integer type: a
\* check that bans sets the cooldown to the mathematical 3^(backoffs so far
\* + 1) and returns normally, whatever the number of backoffs.
C14_PowerNeverOverflows ==
    (pc = "returned" /\ res.should_notify # "not called"
        /\ Before.changes_stacking = BanAt - 1)
    => /\ res.should_notify = "false"
       /\ Site.total_cooldowns = Before.total_cooldowns + 1
       /\ Site.current_cooldown = Pow(CooldownBase, Site.total_cooldowns)


\* C15: no site has four executed checks in a row that each send a
\* notification: the run of notifying checks never exceeds three, and the
\* reportable check that follows three notifying checks sends nothing and
\* leaves the site under a cooldown.
C15_NoFourthInARow ==
    /\ \A i \in DOMAIN sent_run : sent_run[i] <= BanAt - 1
    /\ (/\ res.kind \in {"ok", "panic"}
        /\ sent_run[idx] = BanAt - 1
        /\ res.all_changed \/ res.merch_newly_detected)
       => /\ res.notified = None
          /\ Site.current_cooldown > 0


\* C16: while the loop keeps running its cycles, a site under cooldown
\* eventually has a check executed again (or the process has ended).
C16_MonitoringResumes ==
    (Site.current_cooldown > 0) ~> (pc \in {"capture", "dead"})

C16_Witness ==
    /\ pc = "capture"
    /\ Before.current_cooldown = 1
    /\ PowOverflows(Before.total_cooldowns)
    /\ Site.current_cooldown = 0
    /\ cycle = horizon

\* C17 as stated: after a backoff trigger in cycle c stored n, the site's
\* check is skipped in each of the n cycles c+1 .. c+n.
C17_SkippedNextN ==
    (pc = "returned" /\ trigger[idx] # None /\ cycle > trigger[idx][1].cycle)
    => (res.kind = "skipped" <=> cycle - trigger[idx][1].cycle <= trigger[idx][1].n)

\* C17: after a backoff trigger in cycle c stored n, the gate finds
\* n - (j - 1) left in cycle c+j, the site's check is skipped in the cycles
\* c+1 .. c+n-1 (nothing but the countdown changes: no run is counted, no
\* page is loaded, last_image stays) and executes in cycle c+n, the cycle in
\* which the countdown reaches zero.
C17_SkippedUntilExpiry ==
    \A i \in DOMAIN trigger :
        trigger[i] # None =>
            LET c == trigger[i][1].cycle
                n == trigger[i][1].n
            IN  /\ cycle - c <= n
                /\ (i = idx /\ cycle > c) =>
                     /\ pc = "for_site" => sites[i].current_cooldown = n - (cycle - c - 1)
                     /\ pc = "returned" =>
                            (res.kind = "skipped" <=> cycle - c <= n - 1)
                     /\ (pc = "returned" /\ res.kind = "skipped") =>
                            sites[i] = [Before EXCEPT !.current_cooldown = @ - 1]
                     /\ pc \in {"capture", "text"} =>
                            /\ cycle = c + n
                            /\ sites[i].current_cooldown = 0

C17_Witness ==
    /\ pc = "capture"
    /\ trigger[idx] # None
    /\ trigger[idx][1].n >= CooldownBase
    /\ cycle = trigger[idx][1].cycle + trigger[idx][1].n
    /\ Site.total_runs = Before.total_runs + 1


\* C18: every executed check that is not the site's first and that has a
\* confirmed change or a newly detected keyword calls should_notify, also
\* while total_runs is 3 or less.
C18_OutcomeRegisteredEachCheck ==
    (/\ res.kind \in {"ok", "panic"}
     /\ ~res.first_run
     /\ res.all_changed \/ res.merch_newly_detected)
    => /\ res.should_notify # "not called"
       /\ \/ Site.changes_stacking = Before.changes_stacking + 1
          \/ Site.total_cooldowns = Before.total_cooldowns + 1

\* C19: once a check of a site has stored an image, last_image is present
\* whenever a later check of that site has returned, so that the next check
\* starts with it.
C19_ObservedForGood ==
    (pc = "returned" /\ Before.last_image # None) => Site.last_image # None


\* C20: between checks every site has changes_stacking in 0..3 and
\* total_cooldowns >= 0.
C20_CountersInRange ==
    pc \in {"for_site", "returned", "cycle_end"} =>
        \A i \in DOMAIN sites :
            /\ sites[i].changes_stacking \in 0..(BanAt - 1)
            /\ sites[i].total_cooldowns >= 0

C20_Witness ==
    /\ pc = "returned"
    /\ res.kind = "ok"
    /\ IsQuiet(res.all_changed, res.merch_newly_detected)
    /\ Before.changes_stacking = BanAt - 1
    /\ Before.total_cooldowns = 0
    /\ Site.changes_stacking = 0
    /\ Site.total_cooldowns = 0


\* C21: between checks a site with current_cooldown > 0 has changes_stacking
\* = 0 and total_cooldowns >= 1, and a skipped check leaves both counters as
\* they were.
C21_UnderCooldown ==
    pc \in {"for_site", "returned", "cycle_end"} =>
        /\ \A i \in DOMAIN sites :
               sites[i].current_cooldown > 0 =>
                   /\ sites[i].changes_stacking = 0
                   /\ sites[i].total_cooldowns >= 1
        /\ (pc = "returned" /\ res.kind = "skipped") =>
               /\ Site.changes_stacking = Before.changes_stacking
               /\ Site.total_cooldowns = Before.total_cooldowns

C21_Witness ==
    /\ pc = "returned"
    /\ res.kind = "skipped"
    /\ Site.current_cooldown > 0
    /\ Site.changes_stacking = 0
    /\ Site.total_cooldowns >= 1
    /\ trigger[idx] # None
    /\ cycle > trigger[idx][1].cycle


\* C22: for each site at most one notification of priority 1 is ever sent:
\* a check sends one only if none was sent for the site before, and only in
\* the check that sets the keyword latch; every other notification has
\* priority 0.
C22_OneKeywordAlert ==
    /\ \A i \in DOMAIN alerts : alerts[i] <= 1
    /\ \A i \in DOMAIN alerts : alerts[i] = 1 => sites[i].merch_already_detected
    /\ (pc = "returned" /\ res.notified # None) =>
           IF res.notified[1].priority = 1
           THEN /\ alerts[idx] = 1
                /\ ~Before.merch_already_detected
                /\ Site.merch_already_detected
           ELSE res.notified[1].priority = 0

C22_Witness ==
    /\ pc = "returned"
    /\ alerts[idx] = 1
    /\ res.found
    /\ res.notified # None
    /\ res.notified[1].priority = 0

====
